---------------------------- MODULE Spec2Model ----------------------------
(***************************************************************************)
(* dmarc_reporter (src/main.py): the mailbox driver (main, dump_zip,       *)
(* dump_gz), parse_report and DmarcStatistics as a state machine.          *)
(*                                                                         *)
(* One step of the machine is one iteration of one of the program's loops: *)
(* a message of the mailbox, a MIME part, a zip entry, an 'end' event of   *)
(* iterparse, a dkim or spf sub-result of a record.  What the program      *)
(* reads (the next event of the stream, the fields of the element that     *)
(* closed, the next content type) is drawn when the program reads it.      *)
(*                                                                         *)
(* A text is a tuple of one-character strings; None is Python's None.      *)
(***************************************************************************)
EXTENDS Integers, Sequences, FiniteSets, Bags, TLC

VARIABLES
    pc,            \* where the program is: main, messages, walk, zip,
                   \* metadata, normalize, records, dkim, spf, exit, aborted
    msgs,          \* message numbers of data[0].split() not yet fetched
    parts,         \* content types of the parts msg.walk() has yet to yield
    entries,       \* entries of archive.infolist() not yet opened
    caller,        \* which of dump_zip / dump_gz called parse_report
    out,           \* what the running parse_report call printed
    organisation, report_id, start, end, domain,     \* DmarcStatistics fields
    passed, failed, spfresult, dkimresult,           \* DmarcStatistics fields
    elem,          \* the element the running loop iteration is looking at
    eof,           \* xmlctx is exhausted
    exc,           \* the exception raised in the running parse_report call
    metaClosed,    \* history: the stream delivered a report_metadata close
    policyClosed,  \* history: the stream delivered a policy_published close
    earlyRecords,  \* history: record closes parse_metadata read
    nrecords,      \* history: record closes the stream delivered
    authSeen       \* history: bag of the <<mechanism, domain, result>> read

driverVars == <<msgs, parts, entries>>
fieldVars  == <<organisation, report_id, start, end, domain>>
aggVars    == <<passed, failed, spfresult, dkimresult>>
histVars   == <<metaClosed, policyClosed, earlyRecords, nrecords, authSeen>>
vars == <<pc, msgs, parts, entries, caller, out, organisation, report_id,
          start, end, domain, passed, failed, spfresult, dkimresult, elem,
          eof, exc, metaClosed, policyClosed, earlyRecords, nrecords, authSeen>>

---------------------------------------------------------------------------
(* Bounds of the model. *)
MaxRecords == 2   \* record closes per stream
MaxAuth == 2      \* dkim and spf sub-results per stream
MaxIdLen == 3     \* characters of a drawn report_id
MaxOrgLen == 1    \* characters of a drawn org_name
MaxMsgs == 2      \* messages the search returns
MaxParts == 2     \* parts of a message
MaxEntries == 2   \* entries of a zip archive

---------------------------------------------------------------------------
(* Python values. *)
None == <<"None">>

Strings(A, n) == UNION {[1..k -> A] : k \in 0..n}

CONTENT_ZIP == {"application/zip", "application/x-zip-compressed"}
CONTENT_GZIP == {"application/gzip"}
CONTENT_IGNORE == {"multipart/mixed", "text/html", "text/plain"}

PASS == <<"p", "a", "s", "s">>
FAIL == <<"f", "a", "i", "l">>

Digits == {"0", "1", "2", "3", "4", "5", "6", "7", "8", "9"}

\* int(text) succeeds: the texts drawn hold no sign, blank or underscore.
IsInt(t) == Len(t) > 0 /\ \A i \in 1..Len(t) : t[i] \in Digits

RECURSIVE StripZeros(_)
StripZeros(t) ==
    IF Len(t) > 1 /\ Head(t) = "0" THEN StripZeros(Tail(t)) ELSE t

\* datetime.fromtimestamp(int(t)).isoformat(): a text that names the integer
\* (the integers drawn are in the range fromtimestamp accepts).
IsoFormat(t) == <<"T">> \o StripZeros(t)

\* int(elem.findtext(...)): TypeError on None is caught, ValueError is not.
DateRaises(t) == t /= None /\ ~IsInt(t)
DateOf(t) == IF t = None THEN None ELSE IsoFormat(t)

\* report_id.split("@", 1)[0]
RECURSIVE BeforeAt(_)
BeforeAt(s) ==
    IF s = <<>> \/ Head(s) = "@" THEN <<>> ELSE <<Head(s)>> \o BeforeAt(Tail(s))

Contains(s, c) == \E i \in 1..Len(s) : s[i] = c
StartsWith(s, p) == Len(p) <= Len(s) /\ SubSeq(s, 1, Len(p)) = p

\* lines 62-64
TruncateAtSign(rid) == IF Contains(rid, "@") THEN BeforeAt(rid) ELSE rid

\* lines 65-67
StripOrgPrefix(rid, org) ==
    IF StartsWith(rid, org \o <<".">>)
    THEN SubSeq(rid, Len(org) + 2, Len(rid))
    ELSE rid

\* the two steps the other way round
NormalizeIdPrefixFirst(rid, org) == TruncateAtSign(StripOrgPrefix(rid, org))

\* lines 62-67
NormalizeId(rid, org) == StripOrgPrefix(TruncateAtSign(rid), org)

\* an absent org_name read as the empty text
NormalizeRaisesOnIdOnly(rid, org) == rid = None

\* '"@" in None' (line 62) and 'None + "."' (line 65) raise TypeError.
NormalizeRaises(rid, org) == rid = None \/ org = None

\* self.report_id when the normalization leaves, by return or by exception
IdAfterNormalize(rid, org) ==
    IF rid = None THEN None
    ELSE IF org = None THEN TruncateAtSign(rid)
    ELSE NormalizeId(rid, org)

\* record.find("row/policy_evaluated") found nothing (line 100)
NoPolicy == [missing |-> TRUE]

\* 'and' for 'or'
PolicyPassBoth(policy) == policy.dkim = PASS /\ policy.spf = PASS

\* line 105
PolicyPass(policy) == policy.dkim = PASS \/ policy.spf = PASS

\* lines 100-105: what evaluating the row raises, "" when nothing
RowRaises(row) ==
    IF row.source_ip = None \/ row.count = None THEN "AttributeError"
    ELSE IF ~IsInt(row.count) THEN "ValueError"
    ELSE IF row.policy = NoPolicy THEN "AttributeError"
    ELSE ""

DigitValue(c) == CHOOSE v \in 0..9 : c = <<"0", "1", "2", "3", "4", "5", "6", "7", "8", "9">>[v + 1]

\* int(text)
RECURSIVE IntOf(_)
IntOf(t) ==
    IF t = <<>> THEN 0
    ELSE 10 * IntOf(SubSeq(t, 1, Len(t) - 1)) + DigitValue(t[Len(t)])

\* the counter weighted by the row's count
CountRecordWeighted(n, row) == n + IntOf(row.count)

\* lines 106, 108
CountRecord(n, row) == n + 1

\* lines 105-108
PassedAfter(row) == IF PolicyPass(row.policy) THEN CountRecord(passed, row) ELSE passed
FailedAfter(row) == IF PolicyPass(row.policy) THEN failed ELSE CountRecord(failed, row)

\* no filter on the domain
AuthCountedAlways(a, dom) == TRUE

\* lines 112-113, 122-123
AuthCounted(a, dom) == a.domain = dom

\* lines 115-118, 125-128: a dict as a function on its keys
Incr(d, k) ==
    IF k \in DOMAIN d
    THEN [d EXCEPT ![k] = @ + 1]
    ELSE [x \in (DOMAIN d) \cup {k} |-> IF x = k THEN 1 ELSE d[x]]

TableAfter(d, a, dom) == IF AuthCounted(a, dom) THEN Incr(d, a.result) ELSE d

Get(d, k) == IF k \in DOMAIN d THEN d[k] ELSE 0

EmptyDict == [x \in {} |-> 0]

\* lines 76-77: k + "=" + str(v) raises TypeError on a None key
JoinRaises == None \in (DOMAIN spfresult) \cup (DOMAIN dkimresult)

NoOutput == [kind |-> "none"]
NoElem == [tag |-> "none"]
OtherElem == [tag |-> "version"]

\* lines 130-140, 146: print(str(report))
Summary ==
    [kind |-> "summary", report_id |-> report_id, organisation |-> organisation,
     start |-> start, end |-> end, passed |-> passed, failed |-> failed,
     spfinfo |-> spfresult, dkiminfo |-> dkimresult]

\* lines 147-148: the only except clause of the program
Caught(e) == e = "ParseError"

\* the report printed from the except clause
ErrorOutputPartial(e) == Summary

\* line 148
ErrorOutput(e) == [kind |-> "error", text |-> e]

\* lines 44 and 48 return to the loop that called parse_report
ReturnPc == IF caller = "dump_zip" THEN "zip" ELSE "walk"

\* An exception e leaves DmarcStatistics(xmlctx): parse_report prints a
\* ParseError and returns; anything else leaves dump_zip, dump_gz and main.
Raise(e) ==
    /\ exc' = e
    /\ pc' = IF Caught(e) THEN ReturnPc ELSE "aborted"
    /\ out' = IF Caught(e) THEN ErrorOutput(e) ELSE out

NoRaise(next) ==
    /\ exc' = exc
    /\ pc' = next
    /\ out' = out

PolicyElems(U) == {[tag |-> "policy_published", domain |-> d] : d \in U.domains}
DkimElems(U) == {[tag |-> "dkim", domain |-> a[1], result |-> a[2]] : a \in U.auths}
SpfElems(U) == {[tag |-> "spf", domain |-> a[1], result |-> a[2]] : a \in U.auths}

---------------------------------------------------------------------------
Init ==
    /\ pc = "main"
    /\ msgs = 0
    /\ parts = <<>>
    /\ entries = 0
    /\ caller = "none"
    /\ out = NoOutput
    /\ organisation = None /\ report_id = None
    /\ start = None /\ end = None /\ domain = None
    /\ passed = 0 /\ failed = 0
    /\ spfresult = EmptyDict /\ dkimresult = EmptyDict
    /\ elem = NoElem
    /\ eof = FALSE
    /\ exc = None
    /\ metaClosed = FALSE /\ policyClosed = FALSE
    /\ earlyRecords = 0
    /\ nrecords = 0
    /\ authSeen = EmptyBag

\* line 48: dump_gz has called parse_report, line 144 has run
InitReport ==
    /\ pc = "metadata"
    /\ msgs = 0
    /\ parts = <<>>
    /\ entries = 0
    /\ caller = "dump_gz"
    /\ out = NoOutput
    /\ organisation = None /\ report_id = None
    /\ start = None /\ end = None /\ domain = None
    /\ passed = 0 /\ failed = 0
    /\ spfresult = EmptyDict /\ dkimresult = EmptyDict
    /\ elem = NoElem
    /\ eof = FALSE
    /\ exc = None
    /\ metaClosed = FALSE /\ policyClosed = FALSE
    /\ earlyRecords = 0
    /\ nrecords = 0
    /\ authSeen = EmptyBag

\* lines 151-156
Search(U) ==
    /\ pc = "main"
    /\ \E n \in 0..U.maxmsgs : msgs' = n
    /\ pc' = "messages"
    /\ UNCHANGED <<parts, entries, caller, out, fieldVars, aggVars, elem, eof,
                   exc, histVars>>

\* lines 157-159
FetchMessage(U) ==
    /\ pc = "messages"
    /\ msgs > 0
    /\ msgs' = msgs - 1
    /\ \E ps \in U.partlists : parts' = ps
    /\ pc' = "walk"
    /\ UNCHANGED <<entries, caller, out, fieldVars, aggVars, elem, eof, exc,
                   histVars>>

\* line 157: the search result is exhausted, main returns
Exit ==
    /\ pc = "messages"
    /\ msgs = 0
    /\ pc' = "exit"
    /\ UNCHANGED <<driverVars, caller, out, fieldVars, aggVars, elem, eof, exc,
                   histVars>>

\* line 160: msg.walk() is exhausted
WalkDone ==
    /\ pc = "walk"
    /\ parts = <<>>
    /\ pc' = "messages"
    /\ UNCHANGED <<driverVars, caller, out, fieldVars, aggVars, elem, eof, exc,
                   histVars>>

\* lines 142-145, 50-60: parse_report builds a new DmarcStatistics
BeginReport(c) ==
    /\ caller' = c
    /\ pc' = "metadata"
    /\ out' = NoOutput
    /\ organisation' = None /\ report_id' = None
    /\ start' = None /\ end' = None /\ domain' = None
    /\ passed' = 0 /\ failed' = 0
    /\ spfresult' = EmptyDict /\ dkimresult' = EmptyDict
    /\ elem' = NoElem
    /\ eof' = FALSE
    /\ exc' = None
    /\ metaClosed' = FALSE /\ policyClosed' = FALSE
    /\ earlyRecords' = 0
    /\ nrecords' = 0
    /\ authSeen' = EmptyBag

\* An exception outside parse_report's try: nothing catches it.
Abort(e) ==
    /\ pc' = "aborted"
    /\ exc' = e
    /\ UNCHANGED <<caller, out, fieldVars, aggVars, elem, eof, histVars>>

\* lines 162-163, 40-41: zipfile.ZipFile reads the central directory
PartZip(U) ==
    /\ pc = "walk"
    /\ parts /= <<>>
    /\ Head(parts) \in CONTENT_ZIP
    /\ parts' = Tail(parts)
    /\ msgs' = msgs
    /\ \E n \in 0..U.maxentries : entries' = n
    /\ pc' = "zip"
    /\ UNCHANGED <<caller, out, fieldVars, aggVars, elem, eof, exc, histVars>>

\* line 41: the payload is no zip archive
PartZipBad ==
    /\ pc = "walk"
    /\ parts /= <<>>
    /\ Head(parts) \in CONTENT_ZIP
    /\ parts' = Tail(parts)
    /\ UNCHANGED <<msgs, entries>>
    /\ Abort("BadZipFile")

\* lines 42-44
ZipEntry ==
    /\ pc = "zip"
    /\ entries > 0
    /\ entries' = entries - 1
    /\ UNCHANGED <<msgs, parts>>
    /\ BeginReport("dump_zip")

\* line 43: archive.open(info) refuses the entry
ZipEntryBad ==
    /\ pc = "zip"
    /\ entries > 0
    /\ entries' = entries - 1
    /\ UNCHANGED <<msgs, parts>>
    /\ Abort("BadZipFile")

\* line 42: infolist() is exhausted, dump_zip returns
ZipDone ==
    /\ pc = "zip"
    /\ entries = 0
    /\ pc' = "walk"
    /\ UNCHANGED <<driverVars, caller, out, fieldVars, aggVars, elem, eof, exc,
                   histVars>>

\* lines 164-165, 46-48: gzip.open reads nothing yet
PartGzip ==
    /\ pc = "walk"
    /\ parts /= <<>>
    /\ Head(parts) \in CONTENT_GZIP
    /\ parts' = Tail(parts)
    /\ UNCHANGED <<msgs, entries>>
    /\ BeginReport("dump_gz")

\* lines 166-167
PartIgnore ==
    /\ pc = "walk"
    /\ parts /= <<>>
    /\ Head(parts) \in CONTENT_IGNORE
    /\ parts' = Tail(parts)
    /\ UNCHANGED <<msgs, entries, pc, caller, out, fieldVars, aggVars, elem,
                   eof, exc, histVars>>

\* lines 168-169: the "Unknown content type" line is printed
PartUnknown ==
    /\ pc = "walk"
    /\ parts /= <<>>
    /\ Head(parts) \notin CONTENT_ZIP \cup CONTENT_GZIP \cup CONTENT_IGNORE
    /\ parts' = Tail(parts)
    /\ UNCHANGED <<msgs, entries, pc, caller, out, fieldVars, aggVars, elem,
                   eof, exc, histVars>>

---------------------------------------------------------------------------
(* DmarcStatistics.parse_metadata, lines 79-94 *)

\* lines 81-91
ReadMetadata(U) ==
    /\ pc = "metadata"
    /\ \E e \in (IF metaClosed THEN U.latemetas ELSE U.metas) :
        /\ elem' = e
        /\ organisation' = e.org_name
        /\ report_id' = e.report_id
        /\ IF DateRaises(e.begin)
           THEN start' = start /\ end' = end /\ Raise("ValueError")
           ELSE /\ start' = DateOf(e.begin)
                /\ IF DateRaises(e.end)
                   THEN end' = end /\ Raise("ValueError")
                   ELSE end' = DateOf(e.end) /\ NoRaise("metadata")
    /\ metaClosed' = TRUE
    /\ UNCHANGED <<driverVars, caller, domain, aggVars, eof, policyClosed,
                   earlyRecords, nrecords, authSeen>>

\* no break
AfterPolicyNoBreak == "metadata"

\* where parse_metadata goes on the close of policy_published (line 94)
AfterPolicy == "normalize"

\* lines 92-94
ReadPolicy(U) ==
    /\ pc = "metadata"
    /\ \E e \in PolicyElems(U) :
        /\ elem' = e
        /\ domain' = e.domain
    /\ policyClosed' = TRUE
    /\ NoRaise(AfterPolicy)
    /\ UNCHANGED <<driverVars, caller, organisation, report_id, start, end,
                   aggVars, eof, metaClosed, earlyRecords, nrecords, authSeen>>

\* a record before policy_published refused
EarlyRecordRefused == "ParseError"

\* lines 80-81, 92: what parse_metadata raises on a record close, "" when
\* nothing
EarlyRecordRaises == ""

\* lines 80-81, 92: an 'end' event of a tag parse_metadata does not look for
\* (a record among them)
SkipInMetadata(U) ==
    /\ pc = "metadata"
    /\ \E e \in U.rows \cup {OtherElem} :
        /\ elem' = e
        /\ e.tag = "record" => nrecords < U.maxrec
        /\ nrecords' = IF e.tag = "record" THEN nrecords + 1 ELSE nrecords
        /\ earlyRecords' = IF e.tag = "record" THEN earlyRecords + 1 ELSE earlyRecords
        /\ IF e.tag = "record" /\ EarlyRecordRaises /= ""
           THEN Raise(EarlyRecordRaises)
           ELSE NoRaise("metadata")
    /\ UNCHANGED <<driverVars, caller, fieldVars, aggVars, eof, metaClosed,
                   policyClosed, authSeen>>

\* line 80: the stream ends before policy_published closes
EndOfMetadata ==
    /\ pc = "metadata"
    /\ eof' = TRUE
    /\ NoRaise("normalize")
    /\ UNCHANGED <<driverVars, caller, fieldVars, aggVars, elem, histVars>>

\* lines 80, 97: next(xmlctx) raises (malformed XML, a truncated gzip member,
\* a forbidden entity)
StreamError(U) ==
    /\ pc \in {"metadata", "records"}
    /\ ~eof
    /\ \E e \in U.streamerrors : Raise(e)
    /\ UNCHANGED <<driverVars, caller, fieldVars, aggVars, elem, eof, histVars>>

---------------------------------------------------------------------------
(* DmarcStatistics.__init__, lines 62-72 *)
Normalize ==
    /\ pc = "normalize"
    /\ report_id' = IdAfterNormalize(report_id, organisation)
    /\ IF NormalizeRaises(report_id, organisation)
       THEN Raise("TypeError")
       ELSE NoRaise("records")
    /\ passed' = 0 /\ failed' = 0
    /\ spfresult' = EmptyDict /\ dkimresult' = EmptyDict
    /\ UNCHANGED <<driverVars, caller, organisation, start, end, domain, elem,
                   eof, histVars>>

---------------------------------------------------------------------------
(* DmarcStatistics.parse_records, lines 96-128 *)

\* lines 98-108
ReadRecord(U) ==
    /\ pc = "records"
    /\ ~eof
    /\ nrecords < U.maxrec
    /\ \E r \in U.rows :
        /\ elem' = r
        /\ IF RowRaises(r) /= ""
           THEN /\ Raise(RowRaises(r))
                /\ UNCHANGED <<passed, failed>>
           ELSE /\ NoRaise("dkim")
                /\ passed' = PassedAfter(r)
                /\ failed' = FailedAfter(r)
    /\ nrecords' = nrecords + 1
    /\ UNCHANGED <<driverVars, caller, fieldVars, spfresult, dkimresult, eof,
                   metaClosed, policyClosed, earlyRecords, authSeen>>

\* lines 97-98: an 'end' event of another tag
SkipInRecords(U) ==
    /\ pc = "records"
    /\ ~eof
    /\ \E e \in PolicyElems(U) \cup U.latemetas \cup {OtherElem} :
        /\ elem' = e
        /\ metaClosed' = (metaClosed \/ e.tag = "report_metadata")
        /\ policyClosed' = (policyClosed \/ e.tag = "policy_published")
    /\ NoRaise("records")
    /\ UNCHANGED <<driverVars, caller, fieldVars, aggVars, eof, earlyRecords,
                   nrecords, authSeen>>

\* lines 110-118
ReadDkim(U) ==
    /\ pc = "dkim"
    /\ BagCardinality(authSeen) < U.maxauth
    /\ \E a \in DkimElems(U) :
        /\ elem' = a
        /\ dkimresult' = TableAfter(dkimresult, a, domain)
        /\ authSeen' = authSeen (+) SetToBag({<<"dkim", a.domain, a.result>>})
    /\ NoRaise("dkim")
    /\ UNCHANGED <<driverVars, caller, fieldVars, passed, failed, spfresult,
                   eof, metaClosed, policyClosed, earlyRecords, nrecords>>

\* line 110: findall("auth_results/dkim") is exhausted
EndDkim ==
    /\ pc = "dkim"
    /\ elem' = NoElem
    /\ NoRaise("spf")
    /\ UNCHANGED <<driverVars, caller, fieldVars, aggVars, eof, histVars>>

\* lines 120-128
ReadSpf(U) ==
    /\ pc = "spf"
    /\ BagCardinality(authSeen) < U.maxauth
    /\ \E a \in SpfElems(U) :
        /\ elem' = a
        /\ spfresult' = TableAfter(spfresult, a, domain)
        /\ authSeen' = authSeen (+) SetToBag({<<"spf", a.domain, a.result>>})
    /\ NoRaise("spf")
    /\ UNCHANGED <<driverVars, caller, fieldVars, passed, failed, dkimresult,
                   eof, metaClosed, policyClosed, earlyRecords, nrecords>>

\* line 120: findall("auth_results/spf") is exhausted
EndSpf ==
    /\ pc = "spf"
    /\ elem' = NoElem
    /\ NoRaise("records")
    /\ UNCHANGED <<driverVars, caller, fieldVars, aggVars, eof, histVars>>

\* lines 97, 76-77, 146: the stream ends, __init__ returns, the report is
\* printed
EndOfRecords ==
    /\ pc = "records"
    /\ eof' = TRUE
    /\ exc' = IF JoinRaises THEN "TypeError" ELSE exc
    /\ pc' = IF JoinRaises THEN "aborted" ELSE ReturnPc
    /\ out' = IF JoinRaises THEN out ELSE Summary
    /\ UNCHANGED <<driverVars, caller, fieldVars, aggVars, elem, histVars>>

\* The mailbox loop of main around parse_report.
NextMain(U) ==
    \/ Search(U) \/ FetchMessage(U) \/ Exit \/ WalkDone
    \/ PartZip(U) \/ PartZipBad \/ ZipEntry \/ ZipEntryBad \/ ZipDone
    \/ PartGzip \/ PartIgnore \/ PartUnknown

\* One call of parse_report.
NextReport(U) ==
    \/ ReadMetadata(U) \/ ReadPolicy(U) \/ SkipInMetadata(U) \/ EndOfMetadata
    \/ StreamError(U) \/ Normalize
    \/ ReadRecord(U) \/ SkipInRecords(U) \/ ReadDkim(U) \/ EndDkim
    \/ ReadSpf(U) \/ EndSpf \/ EndOfRecords

---------------------------------------------------------------------------
(* What the environment may deliver. *)
D1 == <<"a">>
D2 == <<"b">>

Meta(org, rid, b, e) ==
    [tag |-> "report_metadata", org_name |-> org, report_id |-> rid,
     begin |-> b, end |-> e]

Row(pol, ip, cnt) ==
    [tag |-> "record", policy |-> pol, source_ip |-> ip, count |-> cnt]

Verdicts == {PASS, FAIL, None}
Policies == {[dkim |-> d, spf |-> s] : d \in Verdicts, s \in Verdicts}
IP == <<"i", "p">>

GoodMeta == Meta(<<"g">>, <<"g", ".", "x">>, <<"1">>, <<"2">>)
GoodRow == Row([dkim |-> PASS, spf |-> None], IP, <<"1">>)

WellFormedRows == {Row(p, IP, c) : p \in Policies, c \in {<<"1">>, <<"2">>}}
BrokenRows ==
    {Row(NoPolicy, IP, <<"1">>), Row([dkim |-> PASS, spf |-> PASS], None, <<"1">>),
     Row([dkim |-> PASS, spf |-> PASS], IP, None),
     Row([dkim |-> PASS, spf |-> PASS], IP, <<"x">>)}

IdChars == {"@", ".", "g"}
ExampleOrg == <<"g", "o", "o", "g", "l", "e", ".", "c", "o", "m">>
ExampleId1 ==
    <<"2", "0", "2", "1", ".", "r", "e", "p", "o", "r", "t", "1", "@", "m", "x",
      ".", "e", "x", "a", "m", "p", "l", "e", ".", "c", "o", "m">>
ExampleId2 == ExampleOrg \o <<".", "x", "f", "8", "3", "a">>

DateTexts == {None, <<>>, <<"7">>, <<"0", "7">>, <<"x">>, <<"7", "x">>}

\* Every shape of record.
URecords ==
    [metas |-> {GoodMeta},
     latemetas |-> {GoodMeta},
     domains |-> {D1, D2, None},
     rows |-> WellFormedRows \cup BrokenRows,
     auths |-> ({D1, D2, None} \X {PASS, FAIL}) \cup {<<D1, None>>},
     streamerrors |-> {"ParseError", "EOFError"},
     maxrec |-> MaxRecords,
     maxauth |-> MaxAuth]

\* Every shape of report_metadata.
UMeta ==
    [metas |->
        {Meta(o, r, <<"1">>, <<"2">>) :
            o \in Strings(IdChars, MaxOrgLen) \cup {None},
            r \in Strings(IdChars, MaxIdLen) \cup {None}}
        \cup {Meta(ExampleOrg, r, <<"1">>, <<"2">>) : r \in {ExampleId1, ExampleId2}}
        \cup {Meta(<<"g">>, <<"g", ".", "x">>, b, e) :
                b \in DateTexts, e \in DateTexts},
     latemetas |-> {GoodMeta},
     domains |-> {D1},
     rows |-> {GoodRow},
     auths |-> {<<D1, PASS>>, <<D1, None>>},
     streamerrors |-> {"ParseError"},
     maxrec |-> 1,
     maxauth |-> 1]

\* A mailbox of several messages, parts and archive entries.
UMain ==
    [metas |-> {GoodMeta, Meta(None, <<"x">>, <<"1">>, <<"x">>)},
     latemetas |-> {GoodMeta},
     domains |-> {D1},
     rows |-> {GoodRow},
     auths |-> {<<D1, PASS>>},
     streamerrors |-> {"ParseError", "EOFError", "EntitiesForbidden"},
     maxrec |-> 1,
     maxauth |-> 1,
     maxmsgs |-> MaxMsgs,
     partlists |->
        Strings({"application/zip", "application/gzip", "text/plain",
                 "image/png"}, MaxParts),
     maxentries |-> MaxEntries]

\* One call of parse_report (from dump_gz), every shape of record.
Spec == InitReport /\ [][NextReport(URecords)]_vars
\* One call of parse_report, every shape of report_metadata.
SpecMeta == InitReport /\ [][NextReport(UMeta)]_vars
\* main over a mailbox.
SpecMain == Init /\ [][NextMain(UMain) \/ NextReport(UMain)]_vars

---------------------------------------------------------------------------
(* The claims. *)

Phase2 == {"records", "dkim", "spf"}
Results == (DOMAIN dkimresult) \cup (DOMAIN spfresult)
               \cup {t[3] : t \in BagToSet(authSeen)}

\* C1: once DmarcStatistics is built from a stream in which no record closed
\* before policy_published, passed + failed is the number of record closes of
\* the stream, whatever the domains of the sub-results.
C1_PassedPlusFailed ==
    (out.kind = "summary" /\ earlyRecords = 0)
        => out.passed + out.failed = nrecords

C1_Witness ==
    /\ out.kind = "summary"
    /\ earlyRecords = 0
    /\ nrecords = 2
    /\ \E t \in BagToSet(authSeen) : t[2] /= domain

\* C2: a record that is aggregated adds exactly 1 to passed when its dkim or
\* its spf verdict is pass, and exactly 1 to failed otherwise (both verdicts
\* absent included), whatever its count; no other step of parse_records
\* changes passed or failed.
C2_OneCounterPerRecord ==
    [][(pc \in Phase2 /\ pc' \in Phase2) =>
        (IF pc = "records" /\ pc' = "dkim"
         THEN (IF elem'.policy.dkim = PASS \/ elem'.policy.spf = PASS
               THEN passed' = passed + 1 /\ failed' = failed
               ELSE failed' = failed + 1 /\ passed' = passed)
         ELSE passed' = passed /\ failed' = failed)]_vars

C2_Witness ==
    /\ pc = "dkim"
    /\ elem = Row([dkim |-> None, spf |-> None], IP, <<"2">>)
    /\ passed = 1
    /\ failed = 1

\* C3: for every result r, dkimresult[r] is the number of dkim sub-results
\* read whose domain is the policy domain and whose result is r, and
\* spfresult[r] the same for spf; a sub-result of another domain is in no
\* table.
C3_TablesCountMatching ==
    \A r \in Results :
        /\ Get(dkimresult, r) = CopiesIn(<<"dkim", domain, r>>, authSeen)
        /\ Get(spfresult, r) = CopiesIn(<<"spf", domain, r>>, authSeen)

C3_Witness ==
    /\ pc = "dkim"
    /\ nrecords = 1
    /\ passed = 1
    /\ \E d \in {D1, D2} \ {domain} : authSeen = SetToBag({<<"dkim", d, PASS>>})
    /\ dkimresult = EmptyDict

\* C4: the normalized id is step 2 applied to the output of step 1: step 1
\* keeps the text before the first "@", step 2 strips organisation + "." when
\* what step 1 returned starts with it.
FirstAt(s) == CHOOSE i \in 1..Len(s) : s[i] = "@" /\ \A j \in 1..(i - 1) : s[j] /= "@"
Step1(s) ==
    IF \E i \in 1..Len(s) : s[i] = "@"
    THEN [i \in 1..(FirstAt(s) - 1) |-> s[i]]
    ELSE s
Step2(s, org) ==
    IF /\ Len(s) > Len(org)
       /\ \A i \in 1..Len(org) : s[i] = org[i]
       /\ s[Len(org) + 1] = "."
    THEN [i \in 1..(Len(s) - Len(org) - 1) |-> s[i + Len(org) + 1]]
    ELSE s

C4_NormalizationOrder ==
    [][pc = "normalize" /\ pc' = "records" =>
        /\ report_id' = Step2(Step1(report_id), organisation)
        /\ (report_id = ExampleId1 /\ organisation = ExampleOrg)
              => report_id' = SubSeq(ExampleId1, 1, 12)
        /\ (report_id = ExampleId2 /\ organisation = ExampleOrg)
              => report_id' = <<"x", "f", "8", "3", "a">>]_vars

C4_Witness ==
    /\ pc = "records"
    /\ organisation = <<"@">>
    /\ elem.tag = "report_metadata"
    /\ elem.report_id = <<"@", ".", "g">>
    /\ report_id = <<>>

DateOrAbsent(t) == IF t = None \/ ~IsInt(t) THEN None ELSE IsoFormat(t)

C6_DatesTolerated ==
    (elem.tag = "report_metadata" /\ ~policyClosed /\ pc \notin Phase2) =>
        /\ exc /= "ValueError"
        /\ start = DateOrAbsent(elem.begin)
        /\ end = DateOrAbsent(elem.end)
        /\ organisation = elem.org_name

\* C7 as stated: an error in one report ends that report only; what is left
\* of the archive, the message and the mailbox is still processed.
C7_ErrorsEndOneReportOnly ==
    pc = "aborted" => (msgs = 0 /\ parts = <<>> /\ entries = 0)

\* C8: parse_report prints a summary only when the stream was read to its
\* end and nothing was raised, and the summary holds every record and
\* sub-result the stream delivered to parse_records.
C8_NoPartialSummary ==
    out.kind = "summary" =>
        /\ eof
        /\ exc = None
        /\ out.passed + out.failed = nrecords - earlyRecords
        /\ \A r \in Results :
            /\ Get(out.dkiminfo, r) = CopiesIn(<<"dkim", domain, r>>, authSeen)
            /\ Get(out.spfinfo, r) = CopiesIn(<<"spf", domain, r>>, authSeen)

C8_Witness ==
    /\ exc = "ParseError"
    /\ passed + failed = 2
    /\ BagCardinality(authSeen) = 2
    /\ out.kind = "error"

\* C9: parse_metadata is never reading once a policy_published has closed;
\* the step that reads the first policy_published close sets the domain and
\* ends phase 1; passed, failed, dkimresult and spfresult change in phase 2
\* only after that close; the domain does not change in phase 2.
C9_MetadataBeforeRecords ==
    [][/\ pc = "metadata" => ~policyClosed
       /\ (pc = "metadata" /\ policyClosed') =>
              (pc' = "normalize" /\ domain' = elem'.domain)
       /\ (pc \in Phase2 /\ pc' \in Phase2 /\ aggVars' /= aggVars) => policyClosed
       /\ (pc \in Phase2 /\ pc' \in Phase2) => domain' = domain]_vars

C9_Witness ==
    /\ pc = "records"
    /\ elem.tag = "policy_published"
    /\ elem.domain /= domain
    /\ passed + failed = 1
    /\ BagCardinality(authSeen) = 1
    /\ Get(dkimresult, PASS) = 1

\* C10 as stated: a stream in which a record closes before any
\* policy_published has closed gets no DmarcStatistics.
C10_EarlyRecordRefused ==
    earlyRecords > 0 => out.kind /= "summary"

\* C10 as amended: a record that closes before any policy_published has
\* closed is skipped: it raises nothing and changes no field, counter or
\* table, and the summary printed counts the other records only.
C10_EarlyRecordSkipped ==
    [][/\ (pc = "metadata" /\ earlyRecords' > earlyRecords) =>
              /\ pc' = "metadata"
              /\ UNCHANGED <<exc, out, fieldVars, aggVars>>
       /\ out'.kind = "summary" =>
              out'.passed + out'.failed = nrecords' - earlyRecords']_vars

C10_Witness ==
    /\ out.kind = "summary"
    /\ earlyRecords = 1
    /\ nrecords = 2
    /\ out.passed + out.failed = 1

=============================================================================
